---- MODULE Spec2Model ----
(***************************************************************************)
(* Delivery engine of rhewin/sdt: message_logs store, notification         *)
(* planner, hourly scheduler (sweeper), BullMQ queue and birthday worker.  *)
(*                                                                         *)
(* Time is counted in whole hours of UTC; the server clock is UTC, so      *)
(* DateTime.now() has server date  now \div 24.  A calendar date is its    *)
(* day number inside one year, so "same month and day" is equality of day  *)
(* numbers and today.set({month, day}) of a birth date is that day number. *)
(* A timezone is its whole-hour offset from UTC.                           *)
(*                                                                         *)
(* Every handler is cut at its awaits on the database and the queue: each  *)
(* action below is one such step, and steps of different handlers          *)
(* interleave freely.  created_at, updated_at and last_attempt_at are not  *)
(* read by any handler and are left out of the rows.                       *)
(***************************************************************************)
EXTENDS Integers, Sequences, FiniteSets, TLC

\* ---------------------------------------------------------------- constants
BIRTHDAY_MESSAGE_HOUR == 9
MAX_RETRY_ATTEMPTS == 5

\* ------------------------------------------------------------------- bounds
\* number of PUT /user requests
MaxEdits == 1
\* number of POST /manual/send-birthday-message requests
MaxManual == 1
\* writes of the users table after which the row may still be deleted
MaxUsers == 2
\* handlers registered on one topic of the event bus
MaxHandlers == 3
\* repeated calls of schedule for the recipient
MaxReplans == 2
\* the birthday dates tried (day numbers)
BDays == {2, 3}

NoTime == 0 - 1
NoRow == 0
UserId == 1

\* ------------------------------------------------------------ clock helpers
\* DateTime.now() in the server zone: calendar date of an hour
ServerDate(h) == h \div 24
\* DateTime.now().setZone(tz): calendar date of an hour in a zone
LocalDate(h, tz) == (h + tz) \div 24
\* 09:00 of the date read as server (UTC) time, the zone ignored
ExecutionTimeServerZone(date, tz) == date * 24 + BIRTHDAY_MESSAGE_HOUR
\* <date>.set({hour: BIRTHDAY_MESSAGE_HOUR, ...}).toUTC()
ExecutionTimeUtc(date, tz) == date * 24 + BIRTHDAY_MESSAGE_HOUR - tz

\* generateIdempotencyKey(userId, messageType, date)
generateIdempotencyKey(userId, messageType, date) == <<userId, messageType, date>>

\* ----------------------------------------------------------- message_logs
Statuses == {"unprocessed", "pending", "processing", "sent", "failed", "retrying"}

EmptyRow == [key |-> <<0, "none", 0>>, date |-> 0, sf |-> 0, status |-> "none",
             cnt |-> 0, err |-> "none", sentAt |-> NoTime]

\* repository.create(data) of a CreateMessageLogDto: the column defaults
\* give status UNPROCESSED and attempt_count 0
NewRow(key, date, sf) == [key |-> key, date |-> date, sf |-> sf,
                          status |-> "unprocessed", cnt |-> 0, err |-> "none",
                          sentAt |-> NoTime]

\* findByIdempotencyKey: the id of a row with that key, NoRow when none
findByIdempotencyKey(rs, key) ==
  IF \E i \in 1..Len(rs) : rs[i].key = key
  THEN CHOOSE i \in 1..Len(rs) : rs[i].key = key /\ \A j \in 1..(i - 1) : rs[j].key # key
  ELSE NoRow

\* the unique constraint on idempotency_key rejects the insert
UniqueViolationNever(rs, key) == FALSE
UniqueViolation(rs, key) == \E i \in 1..Len(rs) : rs[i].key = key

\* updateStatus, the part after findById: the loaded entity with the new
\* status, attempt_count + 1, sent_at on SENT and the error message on
\* FAILED / RETRYING.  save() skips properties that are undefined, so an
\* undefined errorMessage (and the "clearing" on SENT) leaves the column.
updateStatusEntity(entity, status, errorMessage, t) ==
  [entity EXCEPT !.status = status,
                 !.cnt = @ + 1,
                 !.sentAt = IF status = "sent" THEN t ELSE @,
                 !.err = IF status \in {"failed", "retrying"} /\ errorMessage # "undefined"
                         THEN errorMessage ELSE @]

\* findPendingForDate(date): ids of the PENDING rows of that scheduled_date
findPendingForDate(rs, date) ==
  {i \in 1..Len(rs) : rs[i].status = "pending" /\ rs[i].date = date}

\* a set of row ids as the list the query returns (in id order)
RECURSIVE AsList(_)
AsList(S) == IF S = {} THEN <<>>
             ELSE LET m == CHOOSE x \in S : \A y \in S : x <= y
                  IN <<m>> \o AsList(S \ {m})

\* ------------------------------------------------------------------ BullMQ
\* a job added under no id of its own choosing
NewJobAnonymous(key) == [id |-> EmptyRow.key, state |-> "waiting", attemptsMade |-> 0, pc |-> "none",
                row |-> NoRow, snap |-> EmptyRow, shouldRetry |-> "undefined",
                msg |-> "undefined", resp |-> "none", calls |-> 0]
\* a job of the birthday-messages queue; its id is the idempotency key.  The
\* worker's position inside processJob (pc), the entity it loaded (snap) and
\* the error it caught (shouldRetry, msg) are kept with the job it runs.
NewJob(key) == [id |-> key, state |-> "waiting", attemptsMade |-> 0, pc |-> "none",
                row |-> NoRow, snap |-> EmptyRow, shouldRetry |-> "undefined",
                msg |-> "undefined", resp |-> "none", calls |-> 0]

\* birthdayQueue.getJob(jobId)
getJob(js, key) == {j \in js : j.id = key}

\* birthdayQueue.add(name, data, {jobId}): a job id that is already in the
\* queue (in any state) is not added again
QueueAddAlways(js, key) == js \cup {NewJob(key)}
QueueAdd(js, key) == IF getJob(js, key) # {} THEN js ELSE js \cup {NewJob(key)}

\* a remove that leaves the queue as it is
JobRemoveNever(js, key) == js
\* existingJob.remove(): a job locked by a worker (active) cannot be removed,
\* the call throws and the caller carries on
JobRemove(js, key) == {j \in js : ~(j.id = key /\ j.state # "active")}

\* ---------------------------------------------------------------- state
VARIABLES
  now,        \* the clock, hours UTC
  user,       \* the users row of the one recipient
  edits,      \* PUT /user requests served
  rows,       \* message_logs, a row's id is its index
  jobs,       \* the jobs the queue holds
  plan,       \* the notification event subscriber's handler in flight
  sched,      \* runScheduler of the cron task and the manual trigger in flight
  lastSweep,  \* hour the cron task last fired at
  manuals,    \* POST /manual/send-birthday-message requests served
  delivered,  \* per scheduled date: 2xx answers of the external endpoint
  attempts,   \* per scheduled date: runs of processJob that reached the send
  conflicts,  \* callers of createOrGet the insert threw a duplicate key at
  skipped,    \* per scheduled date: jobs processJob returned {skipped: true} for
  replan,     \* a second call of BirthdayHandler.schedule in flight
  http,       \* the last request UserService served, its writes and events
  bus,        \* an EventBus: the handlers of one topic and an emit in progress
  replans     \* repeated calls of schedule made

vars == <<now, user, edits, rows, jobs, plan, sched, lastSweep, manuals, delivered, attempts,
         conflicts, skipped, replan, http, bus, replans>>

Dates == 0..5

NoUser == [exists |-> FALSE, bd |-> 0, tz |-> 0, deleted |-> FALSE, at |-> NoTime]

PlanIdle == [pc |-> "idle", bd |-> 0, tz |-> 0, oldBd |-> 0, oldTz |-> 0,
             key |-> EmptyRow.key,
             sf |-> 0, st |-> "none", em |-> "undefined", row |-> NoRow,
             snap |-> EmptyRow, seen |-> "none"]

SchedIdle == [pc |-> "idle", force |-> FALSE, start |-> NoTime, prev |-> NoTime, day |-> 0, tz |-> 0,
              key |-> EmptyRow.key, sf |-> 0, row |-> NoRow,
              snap |-> EmptyRow, qnow |-> 0, list |-> <<>>, total |-> 0,
              queued |-> 0, skippedNotDue |-> 0, skippedAlreadyQueued |-> 0,
              failed |-> <<>>, threw |-> {}]

\* no request served yet: writes counts repository.create / update calls that
\* returned a user, events counts eventBus.emit calls
NoReq == [schemaOk |-> TRUE, tzOk |-> TRUE, bdFuture |-> FALSE,
          field |-> "none", val |-> 0]

HttpIdle == [op |-> "none", pc |-> "idle", req |-> NoReq, reject |-> "none",
             writes |-> 0, events |-> 0]

\* an EventBus nothing is registered on
BusIdle == [handlers |-> <<>>, pc |-> "idle", traceId |-> "none",
            invoked |-> {}, awaiting |-> {}, log |-> <<>>, threw |-> FALSE,
            topics |-> <<>>, fns |-> <<>>, name |-> "none", calls |-> <<>>]

InitAt(H) ==
  /\ now \in H
  /\ user = NoUser
  /\ edits = 0
  /\ rows = <<>>
  /\ jobs = {}
  /\ plan = PlanIdle
  /\ sched = [s \in {"cron", "manual"} |-> SchedIdle]
  /\ lastSweep = NoTime
  /\ manuals = 0
  /\ delivered = [d \in Dates |-> 0]
  /\ attempts = [d \in Dates |-> 0]
  /\ conflicts = {}
  /\ skipped = [d \in Dates |-> 0]
  /\ replan = PlanIdle
  /\ http = HttpIdle
  /\ bus = BusIdle
  /\ replans = 0

\* the clock reaches the next of the hours H at which the run is observed.
\* A handler takes milliseconds: none is in flight when the hour changes (a
\* job may wait in the queue, or stay failed, for hours).
Tick(H) ==
  /\ \E h \in H : h > now
  /\ plan.pc = "idle" /\ replan.pc = "idle" /\ http.pc = "idle"
  /\ \A s \in {"cron", "manual"} : sched[s].pc = "idle"
  /\ \A j \in jobs : j.state # "active"
  /\ now' = CHOOSE h \in H : h > now /\ \A g \in H : g > now => h <= g
  /\ UNCHANGED <<user, edits, rows, jobs, plan, sched, lastSweep, manuals, delivered, attempts, conflicts, skipped, replan, http, bus, replans>>

\* ------------------------------------------------------- UserService (CRUD)
\* a request whose event is emitted before the request is validated
RejectedAfterEmit(op, why) ==
  [http EXCEPT !.op = op, !.pc = "idle", !.req = NoReq, !.reject = why,
               !.events = @ + 1]

\* a request ends with a throw before the repository write: nothing is
\* written, nothing is emitted
Rejected(op, why) ==
  [http EXCEPT !.op = op, !.pc = "idle", !.req = NoReq, !.reject = why]

\* a request ends with the repository write and the emit that follows it
Served(op) ==
  [http EXCEPT !.op = op, !.pc = "idle", !.req = NoReq, !.reject = "none",
               !.writes = @ + 1, !.events = @ + 1]

\* createUser up to its repository.create: the reason it throws for, "none"
\* when it does not.  Every request carries the e-mail of the one recipient;
\* findByEmail does not see a soft-deleted row, the unique column does.
createUserRejects(req) ==
  IF ~req.schemaOk THEN "validation"
  ELSE IF user.exists /\ ~user.deleted THEN "duplicate email"
  ELSE IF ~req.tzOk THEN "invalid timezone"
  ELSE IF req.bdFuture THEN "future birth date"
  ELSE IF user.exists THEN "unique violation"
  ELSE "none"

\* updateUser up to its repository.update
updateUserRejects(req) ==
  IF ~req.schemaOk THEN "validation"
  ELSE IF ~user.exists \/ user.deleted THEN "not found"
  ELSE IF req.field = "timezone" /\ ~req.tzOk THEN "invalid timezone"
  ELSE IF req.field = "birthDate" /\ req.bdFuture THEN "future birth date"
  ELSE "none"

\* createUser of a valid request while the recipient is not registered:
\* repository.create, then emit USER_CREATED (the subscriber runs
\* scheduleAllForNewUser)
CreateUser(bd, tz) ==
  /\ createUserRejects(NoReq) = "none"
  /\ plan.pc = "idle"
  /\ user' = [exists |-> TRUE, bd |-> bd, tz |-> tz, deleted |-> FALSE, at |-> now]
  /\ plan' = [PlanIdle EXCEPT !.pc = "s_lookup", !.bd = bd, !.tz = tz]
  /\ http' = Served("create")
  /\ UNCHANGED <<now, edits, rows, jobs, sched, lastSweep, manuals, delivered, attempts, conflicts, skipped, replan, bus, replans>>

\* createUser of a request it throws for
CreateUserRejected(req) ==
  /\ http.pc = "idle"
  /\ createUserRejects(req) # "none"
  /\ http' = Rejected("create", createUserRejects(req))
  /\ UNCHANGED <<now, user, edits, rows, jobs, plan, sched, lastSweep, manuals, delivered, attempts, conflicts, skipped, replan, bus, replans>>

\* repository.update with birthDate and emit USER_UPDATED: changes.birthDate
\* is defined (equal to the stored date or not), the subscriber runs
\* handleBirthdateChange
BirthDateChanged(bd) ==
  /\ user' = [user EXCEPT !.bd = bd]
  /\ edits' = edits + 1
  /\ plan' = [PlanIdle EXCEPT !.pc = "b_remove", !.bd = bd, !.tz = user.tz,
                              !.oldBd = user.bd, !.oldTz = user.tz,
                              !.key = generateIdempotencyKey(UserId, "birthday", user.bd)]
  /\ http' = Served("update")

\* repository.update with only timezone and emit USER_UPDATED: the subscriber
\* runs handleTimezoneChange
TimezoneChanged(tz) ==
  /\ user' = [user EXCEPT !.tz = tz]
  /\ edits' = edits + 1
  /\ plan' = [PlanIdle EXCEPT !.pc = "t_remove", !.bd = user.bd, !.tz = tz,
                              !.oldBd = user.bd, !.oldTz = user.tz,
                              !.key = generateIdempotencyKey(UserId, "birthday", user.bd)]
  /\ http' = Served("update")

\* updateUser with birthDate in the request body, nothing interleaved
UpdateBirthDate(bd) ==
  /\ user.exists /\ ~user.deleted
  /\ edits < MaxEdits
  /\ plan.pc = "idle" /\ http.pc = "idle"
  /\ BirthDateChanged(bd)
  /\ UNCHANGED <<now, rows, jobs, sched, lastSweep, manuals, delivered, attempts, conflicts, skipped, replan, bus, replans>>

\* updateUser with only timezone in the request body, nothing interleaved
UpdateTimezone(tz) ==
  /\ user.exists /\ ~user.deleted
  /\ edits < MaxEdits
  /\ plan.pc = "idle" /\ http.pc = "idle"
  /\ TimezoneChanged(tz)
  /\ UNCHANGED <<now, rows, jobs, sched, lastSweep, manuals, delivered, attempts, conflicts, skipped, replan, bus, replans>>

\* updateUser from schema validation to the checks before repository.update
UpdateUserFind(req) ==
  /\ http.pc = "idle"
  /\ updateUserRejects(req) = "none" => edits < MaxEdits
  /\ http' = IF updateUserRejects(req) # "none"
             THEN Rejected("update", updateUserRejects(req))
             ELSE [http EXCEPT !.op = "update", !.pc = "u_update", !.req = req,
                               !.reject = "none"]
  /\ UNCHANGED <<now, user, edits, rows, jobs, plan, sched, lastSweep, manuals, delivered, attempts, conflicts, skipped, replan, bus, replans>>

\* repository.update (its own findById, null when the row is gone), the throw
\* 'Failed to update user' or the emit
UpdateUserSave ==
  /\ http.pc = "u_update"
  /\ plan.pc = "idle"
  /\ IF ~user.exists \/ user.deleted
     THEN /\ http' = Rejected("update", "failed update")
          /\ UNCHANGED <<user, edits, plan>>
     ELSE IF http.req.field = "birthDate"
     THEN BirthDateChanged(http.req.val)
     ELSE TimezoneChanged(http.req.val)
  /\ UNCHANGED <<now, rows, jobs, sched, lastSweep, manuals, delivered, attempts, conflicts, skipped, replan, bus, replans>>

\* deleteUser: soft delete, no event
DeleteUser ==
  /\ user.exists /\ ~user.deleted
  /\ user' = [user EXCEPT !.deleted = TRUE]
  /\ UNCHANGED <<now, edits, rows, jobs, plan, sched, lastSweep, manuals, delivered, attempts, conflicts, skipped, replan, http, bus, replans>>

\* the users row is deleted in the database (no request of the service does
\* it): the foreign key of message_logs is ON DELETE CASCADE, the recipient's
\* records go with the row; the queue keeps its jobs.  Taken between handlers.
PurgeUser ==
  /\ user.exists
  /\ http.writes < MaxUsers
  /\ plan.pc = "idle" /\ replan.pc = "idle" /\ http.pc = "idle"
  /\ \A s \in {"cron", "manual"} : sched[s].pc = "idle"
  /\ \A j \in jobs : j.state # "active"
  /\ user' = NoUser
  /\ rows' = <<>>
  /\ UNCHANGED <<now, edits, jobs, plan, sched, lastSweep, manuals, delivered, attempts, conflicts, skipped, replan, http, bus, replans>>

\* ------------------------------------------------ BirthdayHandler.schedule
\* a check that never finds the birthday passed
BirthdayPassedNever(bd, today) == FALSE
\* birthdayDateThisYear < todayDateOnly, both dates in the user's zone
BirthdayPassed(bd, today) == bd < today

\* from the start of schedule to createOrGet's findByIdempotencyKey: the
\* call p (its user's birth date and zone) after that step
ScheduleLookup(p) ==
  LET today == LocalDate(now, p.tz)
      sf    == ExecutionTimeUtc(p.bd, p.tz)
      key   == generateIdempotencyKey(UserId, "birthday", p.bd)
      isBirthdayToday == p.bd = today
      executionTimePassed == sf < now
      st    == IF isBirthdayToday THEN "pending" ELSE "unprocessed"
      em    == IF isBirthdayToday /\ executionTimePassed THEN "late" ELSE "undefined"
      id    == findByIdempotencyKey(rows, key)
  IN IF BirthdayPassed(p.bd, today) THEN PlanIdle
     ELSE IF id = NoRow
     THEN [p EXCEPT !.pc = "s_create", !.key = key, !.sf = sf, !.st = st, !.em = em]
     ELSE IF st = "pending" \/ em # "undefined"
     THEN [p EXCEPT !.pc = "s_read", !.key = key, !.sf = sf, !.st = st, !.em = em,
                    !.row = id]
     ELSE PlanIdle

PlanScheduleLookup ==
  /\ plan.pc = "s_lookup"
  /\ plan' = ScheduleLookup(plan)
  /\ UNCHANGED <<now, user, edits, rows, jobs, sched, lastSweep, manuals, delivered, attempts, conflicts, skipped, replan, http, bus, replans>>

\* createOrGet's create: the insert; a duplicate key throws, schedule catches
\* it and returns {success: false}
PlanScheduleCreate ==
  /\ plan.pc = "s_create"
  /\ IF UniqueViolation(rows, plan.key)
     THEN /\ conflicts' = conflicts \cup {"plan"}
          /\ plan' = PlanIdle
          /\ rows' = rows
     ELSE /\ rows' = Append(rows, NewRow(plan.key, plan.key[3], plan.sf))
          /\ plan' = IF plan.st = "pending" \/ plan.em # "undefined"
                     THEN [plan EXCEPT !.pc = "s_read", !.row = Len(rows) + 1]
                     ELSE PlanIdle
          /\ conflicts' = conflicts
  /\ UNCHANGED <<now, user, edits, jobs, sched, lastSweep, manuals, delivered, attempts, skipped, replan, http, bus, replans>>

\* updateStatus(messageLog.id, status, errorMessage): findById
PlanScheduleRead ==
  /\ plan.pc = "s_read"
  /\ plan' = [plan EXCEPT !.pc = "s_write", !.snap = rows[plan.row]]
  /\ UNCHANGED <<now, user, edits, rows, jobs, sched, lastSweep, manuals, delivered, attempts, conflicts, skipped, replan, http, bus, replans>>

\* updateStatus(messageLog.id, status, errorMessage): save
PlanScheduleWrite ==
  /\ plan.pc = "s_write"
  /\ rows' = [rows EXCEPT ![plan.row] = updateStatusEntity(plan.snap, plan.st, plan.em, now)]
  /\ plan' = PlanIdle
  /\ UNCHANGED <<now, user, edits, jobs, sched, lastSweep, manuals, delivered, attempts, conflicts, skipped, replan, http, bus, replans>>

\* ------------------------------ a second call of BirthdayHandler.schedule
\* scheduleNotification('birthday', user) is called again for the recipient,
\* while the first call is in flight or after it
Replan ==
  /\ user.exists /\ ~user.deleted
  /\ replan.pc = "idle"
  /\ replans < MaxReplans
  /\ replans' = replans + 1
  /\ replan' = [PlanIdle EXCEPT !.pc = "s_lookup", !.bd = user.bd, !.tz = user.tz]
  /\ UNCHANGED <<now, user, edits, rows, jobs, plan, sched, lastSweep, manuals, delivered, attempts, conflicts, skipped, http, bus>>

ReplanLookup ==
  /\ replan.pc = "s_lookup"
  /\ replan' = ScheduleLookup(replan)
  /\ UNCHANGED <<now, user, edits, rows, jobs, plan, sched, lastSweep, manuals, delivered, attempts, conflicts, skipped, http, bus, replans>>

ReplanCreate ==
  /\ replan.pc = "s_create"
  /\ IF UniqueViolation(rows, replan.key)
     THEN /\ conflicts' = conflicts \cup {"replan"}
          /\ replan' = PlanIdle
          /\ rows' = rows
     ELSE /\ rows' = Append(rows, NewRow(replan.key, replan.key[3], replan.sf))
          /\ replan' = IF replan.st = "pending" \/ replan.em # "undefined"
                       THEN [replan EXCEPT !.pc = "s_read", !.row = Len(rows) + 1]
                       ELSE PlanIdle
          /\ conflicts' = conflicts
  /\ UNCHANGED <<now, user, edits, jobs, plan, sched, lastSweep, manuals, delivered, attempts, skipped, http, bus, replans>>

ReplanRead ==
  /\ replan.pc = "s_read"
  /\ replan' = [replan EXCEPT !.pc = "s_write", !.snap = rows[replan.row]]
  /\ UNCHANGED <<now, user, edits, rows, jobs, plan, sched, lastSweep, manuals, delivered, attempts, conflicts, skipped, http, bus, replans>>

ReplanWrite ==
  /\ replan.pc = "s_write"
  /\ rows' = [rows EXCEPT ![replan.row] =
                updateStatusEntity(replan.snap, replan.st, replan.em, now)]
  /\ replan' = PlanIdle
  /\ UNCHANGED <<now, user, edits, jobs, plan, sched, lastSweep, manuals, delivered, attempts, conflicts, skipped, http, bus, replans>>

ReplanSchedule == Replan \/ ReplanLookup \/ ReplanCreate \/ ReplanRead \/ ReplanWrite

\* --------------------------------- NotificationService.handleBirthdateChange
\* STEP 1: getJob(oldIdempotencyKey) and remove
PlanBirthdateRemoveJob ==
  /\ plan.pc = "b_remove"
  /\ jobs' = JobRemove(jobs, plan.key)
  /\ plan' = [plan EXCEPT !.pc = "b_find"]
  /\ UNCHANGED <<now, user, edits, rows, sched, lastSweep, manuals, delivered, attempts, conflicts, skipped, replan, http, bus, replans>>

\* STEP 2: findByIdempotencyKey(oldIdempotencyKey) and the branch on status
PlanBirthdateFind ==
  /\ plan.pc = "b_find"
  /\ LET id == findByIdempotencyKey(rows, plan.key)
     IN plan' = IF id # NoRow /\ rows[id].status \in {"unprocessed", "pending"}
                THEN [plan EXCEPT !.pc = "b_read", !.row = id]
                ELSE [plan EXCEPT !.pc = "s_lookup"]
  /\ UNCHANGED <<now, user, edits, rows, jobs, sched, lastSweep, manuals, delivered, attempts, conflicts, skipped, replan, http, bus, replans>>

\* updateStatus(oldMessageLog.id, FAILED, 'Cancelled ...'): findById
PlanBirthdateRead ==
  /\ plan.pc = "b_read"
  /\ plan' = [plan EXCEPT !.pc = "b_write", !.snap = rows[plan.row]]
  /\ UNCHANGED <<now, user, edits, rows, jobs, sched, lastSweep, manuals, delivered, attempts, conflicts, skipped, replan, http, bus, replans>>

\* updateStatus(oldMessageLog.id, FAILED, 'Cancelled ...'): save; STEP 3 follows
PlanBirthdateWrite ==
  /\ plan.pc = "b_write"
  /\ rows' = [rows EXCEPT ![plan.row] = updateStatusEntity(plan.snap, "failed", "cancelled", now)]
  /\ plan' = [plan EXCEPT !.pc = "s_lookup", !.row = NoRow, !.snap = EmptyRow]
  /\ UNCHANGED <<now, user, edits, jobs, sched, lastSweep, manuals, delivered, attempts, conflicts, skipped, replan, http, bus, replans>>

\* ---------------------------------- NotificationService.handleTimezoneChange
\* STEP 1: getJob(idempotencyKey) and remove
PlanTimezoneRemoveJob ==
  /\ plan.pc = "t_remove"
  /\ jobs' = JobRemove(jobs, plan.key)
  /\ plan' = [plan EXCEPT !.pc = "t_find"]
  /\ UNCHANGED <<now, user, edits, rows, sched, lastSweep, manuals, delivered, attempts, conflicts, skipped, replan, http, bus, replans>>

\* STEP 2 and 3: findByIdempotencyKey, the aborts on PROCESSING / SENT, and the
\* new scheduled_for
PlanTimezoneFind ==
  /\ plan.pc = "t_find"
  /\ LET id == findByIdempotencyKey(rows, plan.key)
     IN plan' = IF id = NoRow \/ rows[id].status \in {"processing", "sent"}
                THEN PlanIdle
                ELSE [plan EXCEPT !.pc = "t_read", !.row = id, !.seen = rows[id].status,
                                  !.sf = ExecutionTimeUtc(plan.bd, plan.tz)]
  /\ UNCHANGED <<now, user, edits, rows, jobs, sched, lastSweep, manuals, delivered, attempts, conflicts, skipped, replan, http, bus, replans>>

\* STEP 4: update(id, {scheduledFor}): findById
PlanTimezoneRead ==
  /\ plan.pc = "t_read"
  /\ plan' = [plan EXCEPT !.pc = "t_write", !.snap = rows[plan.row]]
  /\ UNCHANGED <<now, user, edits, rows, jobs, sched, lastSweep, manuals, delivered, attempts, conflicts, skipped, replan, http, bus, replans>>

\* a re-queue decided without looking at the status or the time
RequeueAlways(status, scheduledFor, t) == TRUE
\* STEP 5: the record was PENDING when read and the new time is due
RequeueDue(status, scheduledFor, t) == status = "pending" /\ scheduledFor <= t

\* STEP 4: update(id, {scheduledFor}): save; STEP 5 decides on the re-queue
PlanTimezoneWrite ==
  /\ plan.pc = "t_write"
  /\ rows' = [rows EXCEPT ![plan.row] = [plan.snap EXCEPT !.sf = plan.sf]]
  /\ plan' = IF RequeueDue(plan.seen, plan.sf, now)
             THEN [plan EXCEPT !.pc = "t_add", !.snap = EmptyRow]
             ELSE PlanIdle
  /\ UNCHANGED <<now, user, edits, jobs, sched, lastSweep, manuals, delivered, attempts, conflicts, skipped, replan, http, bus, replans>>

\* STEP 5: birthdayQueue.add with jobId = idempotencyKey
PlanTimezoneAdd ==
  /\ plan.pc = "t_add"
  /\ jobs' = QueueAdd(jobs, plan.key)
  /\ plan' = PlanIdle
  /\ UNCHANGED <<now, user, edits, rows, sched, lastSweep, manuals, delivered, attempts, conflicts, skipped, replan, http, bus, replans>>

PlanSchedule ==
  PlanScheduleLookup \/ PlanScheduleCreate \/ PlanScheduleRead \/ PlanScheduleWrite

PlanBirthdate ==
  PlanBirthdateRemoveJob \/ PlanBirthdateFind \/ PlanBirthdateRead \/ PlanBirthdateWrite

PlanTimezone ==
  \/ PlanTimezoneRemoveJob \/ PlanTimezoneFind \/ PlanTimezoneRead \/ PlanTimezoneWrite
  \/ PlanTimezoneAdd

\* -------------------------------------------------- HourlySchedulerService
\* the cron task fires at minute 0 of the hour: runScheduler starts, and
\* processTodayBirthdays takes today's month and day from the server clock
CronFire ==
  /\ sched["cron"].pc = "idle"
  /\ lastSweep < now
  /\ lastSweep' = now
  /\ sched' = [sched EXCEPT !["cron"] = [SchedIdle EXCEPT !.pc = "users", !.start = now, !.prev = lastSweep,
                                                         !.day = ServerDate(now)]]
  /\ UNCHANGED <<now, user, edits, rows, jobs, plan, manuals, delivered, attempts, conflicts, skipped, replan, http, bus, replans>>

\* processTodayBirthdays: findAll (live users) and the filter on the birth
\* month and day against the server's date
SweepFindUsers ==
  /\ sched["cron"].pc = "users"
  /\ sched' = [sched EXCEPT !["cron"] =
                 IF user.exists /\ ~user.deleted /\ user.bd = sched["cron"].day
                 THEN [@ EXCEPT !.pc = "u_lookup", !.tz = user.tz]
                 ELSE [@ EXCEPT !.pc = "q_find"]]
  /\ UNCHANGED <<now, user, edits, rows, jobs, plan, lastSweep, manuals, delivered, attempts, conflicts, skipped, replan, http, bus, replans>>

\* processUserBirthday up to findByIdempotencyKey: the key and scheduled_for
\* are those of today's date in the user's zone
SweepUserLookup ==
  /\ sched["cron"].pc = "u_lookup"
  /\ LET c     == sched["cron"]
         date  == LocalDate(now, c.tz)
         sf    == ExecutionTimeUtc(date, c.tz)
         key   == generateIdempotencyKey(UserId, "birthday", date)
         id    == findByIdempotencyKey(rows, key)
     IN sched' = [sched EXCEPT !["cron"] =
                    IF id = NoRow
                    THEN [c EXCEPT !.pc = "c_lookup", !.key = key, !.sf = sf]
                    ELSE IF rows[id].status = "unprocessed"
                    THEN [c EXCEPT !.pc = "u_read", !.key = key, !.sf = sf, !.row = id]
                    ELSE [c EXCEPT !.pc = "q_find"]]
  /\ UNCHANGED <<now, user, edits, rows, jobs, plan, lastSweep, manuals, delivered, attempts, conflicts, skipped, replan, http, bus, replans>>

\* createOrGet: its own findByIdempotencyKey
SweepCreateLookup ==
  /\ sched["cron"].pc = "c_lookup"
  /\ LET id == findByIdempotencyKey(rows, sched["cron"].key)
     IN sched' = [sched EXCEPT !["cron"] =
                    IF id = NoRow THEN [@ EXCEPT !.pc = "c_create"]
                    ELSE [@ EXCEPT !.pc = "u_read", !.row = id]]
  /\ UNCHANGED <<now, user, edits, rows, jobs, plan, lastSweep, manuals, delivered, attempts, conflicts, skipped, replan, http, bus, replans>>

\* createOrGet: create; a duplicate key throws, processTodayBirthdays logs
\* 'Failed to process user birthday' and goes on
SweepCreate ==
  /\ sched["cron"].pc = "c_create"
  /\ LET c == sched["cron"]
     IN IF UniqueViolation(rows, c.key)
        THEN /\ conflicts' = conflicts \cup {"cron"}
             /\ sched' = [sched EXCEPT !["cron"] = [c EXCEPT !.pc = "q_find"]]
             /\ rows' = rows
        ELSE /\ rows' = Append(rows, NewRow(c.key, c.key[3], c.sf))
             /\ sched' = [sched EXCEPT !["cron"] = [c EXCEPT !.pc = "u_read", !.row = Len(rows) + 1]]
             /\ conflicts' = conflicts
  /\ UNCHANGED <<now, user, edits, jobs, plan, lastSweep, manuals, delivered, attempts, skipped, replan, http, bus, replans>>

\* updateStatus(id, PENDING): findById
SweepPromoteRead ==
  /\ sched["cron"].pc = "u_read"
  /\ sched' = [sched EXCEPT !["cron"] = [@ EXCEPT !.pc = "u_write", !.snap = rows[sched["cron"].row]]]
  /\ UNCHANGED <<now, user, edits, rows, jobs, plan, lastSweep, manuals, delivered, attempts, conflicts, skipped, replan, http, bus, replans>>

\* updateStatus(id, PENDING): save
SweepPromoteWrite ==
  /\ sched["cron"].pc = "u_write"
  /\ rows' = [rows EXCEPT ![sched["cron"].row] =
                updateStatusEntity(sched["cron"].snap, "pending", "undefined", now)]
  /\ sched' = [sched EXCEPT !["cron"] = [@ EXCEPT !.pc = "q_find", !.snap = EmptyRow]]
  /\ UNCHANGED <<now, user, edits, jobs, plan, lastSweep, manuals, delivered, attempts, conflicts, skipped, replan, http, bus, replans>>

\* AdminController.sendPendingMessages: queueDueMessages(trace_id, false)
ManualTrigger ==
  /\ sched["manual"].pc = "idle"
  /\ manuals < MaxManual
  /\ manuals' = manuals + 1
  /\ sched' = [sched EXCEPT !["manual"] = [SchedIdle EXCEPT !.pc = "q_find", !.force = TRUE,
                                                           !.start = now]]
  /\ UNCHANGED <<now, user, edits, rows, jobs, plan, lastSweep, delivered, attempts, conflicts, skipped, replan, http, bus, replans>>

\* the messages findPendingForDate returns, as the loop sees them
PendingList(rs, date) ==
  LET ids == AsList(findPendingForDate(rs, date))
  IN [n \in 1..Len(ids) |-> [id |-> ids[n], key |-> rs[ids[n]].key, sf |-> rs[ids[n]].sf]]

\* queueDueMessages: now, today (server date) and findPendingForDate(today)
QueueFind(s) ==
  /\ sched[s].pc = "q_find"
  /\ LET list == PendingList(rows, ServerDate(now))
     IN sched' = [sched EXCEPT ![s] = [@ EXCEPT !.pc = "q_item", !.qnow = now, !.list = list,
                                                !.total = Len(list), !.row = NoRow,
                                                !.key = EmptyRow.key, !.sf = 0, !.tz = 0]]
  /\ UNCHANGED <<now, user, edits, rows, jobs, plan, lastSweep, manuals, delivered, attempts, conflicts, skipped, replan, http, bus, replans>>

\* the scheduled time has not arrived (only tested when checkDueTime)
NotDueAlwaysTested(checkDueTime, scheduledFor, t) == scheduledFor > t
NotDue(checkDueTime, scheduledFor, t) == checkDueTime /\ scheduledFor > t

\* one turn of the loop up to getJob: skip a message that is not due, skip
\* one whose job exists, otherwise go on to add; at the end of the list
\* queueDueMessages returns its summary
QueueItem(s) ==
  /\ sched[s].pc = "q_item"
  /\ LET c == sched[s]
     IN sched' = [sched EXCEPT ![s] =
          IF c.list = <<>> THEN SchedIdle
          ELSE IF NotDue(~c.force, Head(c.list).sf, c.qnow)
          THEN [c EXCEPT !.list = Tail(@), !.skippedNotDue = @ + 1]
          ELSE IF getJob(jobs, Head(c.list).key) # {}
          THEN [c EXCEPT !.list = Tail(@), !.skippedAlreadyQueued = @ + 1]
          ELSE [c EXCEPT !.pc = "q_add"]]
  /\ UNCHANGED <<now, user, edits, rows, jobs, plan, lastSweep, manuals, delivered, attempts, conflicts, skipped, replan, http, bus, replans>>

\* birthdayQueue.add with delay 0 and jobId = idempotencyKey
QueueAddJob(s) ==
  /\ sched[s].pc = "q_add"
  /\ jobs' = QueueAdd(jobs, Head(sched[s].list).key)
  /\ sched' = [sched EXCEPT ![s] = [@ EXCEPT !.pc = "q_item", !.list = Tail(@), !.queued = @ + 1]]
  /\ UNCHANGED <<now, user, edits, rows, plan, lastSweep, manuals, delivered, attempts, conflicts, skipped, replan, http, bus, replans>>

QueueDue(s) == QueueFind(s) \/ QueueItem(s) \/ QueueAddJob(s)

\* a catch block that records the failure and leaves the loop
CatchEnqueueAbort(c, id) == [c EXCEPT !.pc = "q_item", !.list = <<>>, !.failed = Append(@, id)]
\* a catch block that records nothing
CatchEnqueueSilent(c, id) == [c EXCEPT !.pc = "q_item", !.list = Tail(@)]
\* the catch block of the loop: log, failed.push(messageLog.id), next message
CatchEnqueue(c, id) == [c EXCEPT !.pc = "q_item", !.list = Tail(@), !.failed = Append(@, id)]

\* birthdayQueue.getJob (reached for a message that is due) or
\* birthdayQueue.add throws, Redis being unavailable: the catch block runs.
\* threw keeps the ids of the messages whose enqueue threw.
QueueThrows(s) ==
  /\ sched[s].pc \in {"q_item", "q_add"}
  /\ sched[s].list # <<>>
  /\ LET c  == sched[s]
         id == Head(c.list).id
     IN /\ c.pc = "q_item" => ~NotDue(~c.force, Head(c.list).sf, c.qnow)
        /\ sched' = [sched EXCEPT ![s] = [CatchEnqueue(c, id) EXCEPT !.threw = c.threw \cup {id}]]
  /\ UNCHANGED <<now, user, edits, rows, jobs, plan, lastSweep, manuals, delivered, attempts, conflicts, skipped, replan, http, bus, replans>>

\* the cron task: processTodayBirthdays, then queueDueMessages
CronSweep ==
  \/ CronFire \/ SweepFindUsers \/ SweepUserLookup \/ SweepCreateLookup \/ SweepCreate
  \/ SweepPromoteRead \/ SweepPromoteWrite
  \/ QueueDue("cron")

\* the manual trigger: queueDueMessages alone
ManualSweep == ManualTrigger \/ QueueDue("manual")

\* ------------------------------------------------------------ EmailService
Responses == {"2xx", "4xx", "5xx", "timeout", "open"}

\* sendEmailRequest: what the fetch of the endpoint makes of its answer
sendEmailRequest(response) ==
  CASE response = "2xx"     -> [ok |-> TRUE,  shouldRetry |-> "undefined", msg |-> "none"]
    [] response = "4xx"     -> [ok |-> FALSE, shouldRetry |-> "false",     msg |-> "client"]
    [] response = "5xx"     -> [ok |-> FALSE, shouldRetry |-> "true",      msg |-> "server"]
    [] response = "timeout" -> [ok |-> FALSE, shouldRetry |-> "true",      msg |-> "timeout"]

\* the error the registered fallback throws; it carries no shouldRetry
FallbackError == [ok |-> FALSE, shouldRetry |-> "undefined", msg |-> "unavailable"]

\* circuitBreaker.fire: with the circuit open the action is not run; when
\* the action rejects, the breaker runs the registered fallback and fire
\* settles with the fallback's outcome, here the error it throws
circuitBreakerFire(response) ==
  IF response = "open" THEN FallbackError
  ELSE IF sendEmailRequest(response).ok THEN sendEmailRequest(response)
  ELSE FallbackError

\* ---------------------------------------------------------- BirthdayWorker
Replace(js, j, j2) == (js \ {j}) \cup {j2}

\* status the catch block writes for an error that is not marked permanent
RetryStatusOffByOne(attemptsMade) ==
  IF attemptsMade >= MAX_RETRY_ATTEMPTS THEN "failed" ELSE "retrying"
RetryStatus(attemptsMade) ==
  IF attemptsMade + 1 >= MAX_RETRY_ATTEMPTS THEN "failed" ELSE "retrying"

\* the queue after processJob threw: the attempt is counted and the job is
\* retried (after its backoff) while attempts remain, kept as failed otherwise
MoveToFailed(j) ==
  [j EXCEPT !.attemptsMade = @ + 1,
            !.state = IF j.attemptsMade + 1 < MAX_RETRY_ATTEMPTS THEN "waiting" ELSE "failed",
            !.pc = "none", !.row = NoRow, !.snap = EmptyRow,
            !.shouldRetry = "undefined", !.msg = "undefined", !.resp = "none"]

\* a worker takes a waiting job
WorkerTake(j) ==
  /\ j.state = "waiting"
  /\ jobs' = Replace(jobs, j, [j EXCEPT !.state = "active", !.pc = "find"])
  /\ UNCHANGED <<now, user, edits, rows, plan, sched, lastSweep, manuals, delivered, attempts, conflicts, skipped, replan, http, bus, replans>>

\* 2. the idempotency check on the log the job found
AlreadySentNever(messageLog) == FALSE
AlreadySent(messageLog) == messageLog.status = "sent"

\* 1. findByIdempotencyKey(job.id); 2. a SENT log ends the job as skipped
\* (the job completes and is removed)
WorkerFind(j) ==
  /\ j.state = "active" /\ j.pc = "find"
  /\ LET id == findByIdempotencyKey(rows, j.id)
     IN /\ jobs' = IF id = NoRow
                   THEN Replace(jobs, j, [j EXCEPT !.pc = "c_find", !.msg = "notfound"])
                   ELSE IF AlreadySent(rows[id])
                   THEN jobs \ {j}
                   ELSE Replace(jobs, j, [j EXCEPT !.pc = "p_read", !.row = id])
        /\ skipped' = IF id # NoRow /\ AlreadySent(rows[id])
                      THEN [skipped EXCEPT ![j.id[3]] = @ + 1]
                      ELSE skipped
  /\ UNCHANGED <<now, user, edits, rows, plan, sched, lastSweep, manuals, delivered, attempts, conflicts, replan, http, bus, replans>>

\* 3. updateStatus(id, PROCESSING): findById
WorkerProcessingRead(j) ==
  /\ j.state = "active" /\ j.pc = "p_read"
  /\ jobs' = Replace(jobs, j, [j EXCEPT !.pc = "p_write", !.snap = rows[j.row]])
  /\ UNCHANGED <<now, user, edits, rows, plan, sched, lastSweep, manuals, delivered, attempts, conflicts, skipped, replan, http, bus, replans>>

\* 3. updateStatus(id, PROCESSING): save
WorkerProcessingWrite(j) ==
  /\ j.state = "active" /\ j.pc = "p_write"
  /\ rows' = [rows EXCEPT ![j.row] = updateStatusEntity(j.snap, "processing", "undefined", now)]
  /\ jobs' = Replace(jobs, j, [j EXCEPT !.pc = "user", !.snap = EmptyRow])
  /\ UNCHANGED <<now, user, edits, plan, sched, lastSweep, manuals, delivered, attempts, conflicts, skipped, replan, http, bus, replans>>

\* a lookup of the users row that also returns a soft-deleted row
findByIdWithDeleted(u) == u.exists
\* userRepository.findById: findOne does not return a soft-deleted row
findById(u) == u.exists /\ ~u.deleted

\* 4. userRepository.findById: without a user the job throws 'User not found'
WorkerLoadUser(j) ==
  /\ j.state = "active" /\ j.pc = "user"
  /\ jobs' = IF findById(user)
             THEN Replace(jobs, j, [j EXCEPT !.pc = "send"])
             ELSE Replace(jobs, j, [j EXCEPT !.pc = "c_find", !.msg = "nouser"])
  /\ UNCHANGED <<now, user, edits, rows, plan, sched, lastSweep, manuals, delivered, attempts, conflicts, skipped, replan, http, bus, replans>>

\* 5. sendBirthdayMessage: the endpoint (or the open circuit) answers
WorkerSend(j, response) ==
  /\ j.state = "active" /\ j.pc = "send"
  /\ LET r == circuitBreakerFire(response)
         called == IF response = "open" THEN 0 ELSE 1
     IN /\ jobs' = IF r.ok
                   THEN Replace(jobs, j, [j EXCEPT !.pc = "s_read", !.calls = @ + called,
                                                   !.resp = response])
                   ELSE Replace(jobs, j, [j EXCEPT !.pc = "c_find", !.calls = @ + called,
                                                   !.resp = response,
                                                   !.shouldRetry = r.shouldRetry, !.msg = r.msg])
        /\ delivered' = IF response = "2xx"
                        THEN [delivered EXCEPT ![j.id[3]] = @ + 1]
                        ELSE delivered
        /\ attempts' = [attempts EXCEPT ![j.id[3]] = @ + 1]
  /\ UNCHANGED <<now, user, edits, rows, plan, sched, lastSweep, manuals, conflicts, skipped, replan, http, bus, replans>>

\* 6. updateStatus(id, SENT): findById
WorkerSentRead(j) ==
  /\ j.state = "active" /\ j.pc = "s_read"
  /\ jobs' = Replace(jobs, j, [j EXCEPT !.pc = "s_write", !.snap = rows[j.row]])
  /\ UNCHANGED <<now, user, edits, rows, plan, sched, lastSweep, manuals, delivered, attempts, conflicts, skipped, replan, http, bus, replans>>

\* 6. updateStatus(id, SENT): save; processJob returns, the completed job is
\* removed (removeOnComplete)
WorkerSentWrite(j) ==
  /\ j.state = "active" /\ j.pc = "s_write"
  /\ rows' = [rows EXCEPT ![j.row] = updateStatusEntity(j.snap, "sent", "undefined", now)]
  /\ jobs' = jobs \ {j}
  /\ UNCHANGED <<now, user, edits, plan, sched, lastSweep, manuals, delivered, attempts, conflicts, skipped, replan, http, bus, replans>>

\* catch: findByIdempotencyKey again and the choice of the branch
WorkerCatchFind(j) ==
  /\ j.state = "active" /\ j.pc = "c_find"
  /\ LET id == findByIdempotencyKey(rows, j.id)
     IN jobs' = IF id = NoRow
                THEN Replace(jobs, j, [j EXCEPT !.pc = "throw"])
                ELSE IF j.shouldRetry = "false"
                THEN Replace(jobs, j, [j EXCEPT !.pc = "f_read", !.row = id])
                ELSE Replace(jobs, j, [j EXCEPT !.pc = "r_read", !.row = id])
  /\ UNCHANGED <<now, user, edits, rows, plan, sched, lastSweep, manuals, delivered, attempts, conflicts, skipped, replan, http, bus, replans>>

\* catch, shouldRetry === false: updateStatus(id, FAILED, message): findById
WorkerPermanentRead(j) ==
  /\ j.state = "active" /\ j.pc = "f_read"
  /\ jobs' = Replace(jobs, j, [j EXCEPT !.pc = "f_write", !.snap = rows[j.row]])
  /\ UNCHANGED <<now, user, edits, rows, plan, sched, lastSweep, manuals, delivered, attempts, conflicts, skipped, replan, http, bus, replans>>

\* catch, shouldRetry === false: save, then return {success: false}: the job
\* completes and is removed
WorkerPermanentWrite(j) ==
  /\ j.state = "active" /\ j.pc = "f_write"
  /\ rows' = [rows EXCEPT ![j.row] = updateStatusEntity(j.snap, "failed", j.msg, now)]
  /\ jobs' = jobs \ {j}
  /\ UNCHANGED <<now, user, edits, plan, sched, lastSweep, manuals, delivered, attempts, conflicts, skipped, replan, http, bus, replans>>

\* catch, retriable: updateStatus(id, FAILED or RETRYING, message): findById
WorkerRetryRead(j) ==
  /\ j.state = "active" /\ j.pc = "r_read"
  /\ jobs' = Replace(jobs, j, [j EXCEPT !.pc = "r_write", !.snap = rows[j.row]])
  /\ UNCHANGED <<now, user, edits, rows, plan, sched, lastSweep, manuals, delivered, attempts, conflicts, skipped, replan, http, bus, replans>>

\* catch, retriable: save
WorkerRetryWrite(j) ==
  /\ j.state = "active" /\ j.pc = "r_write"
  /\ rows' = [rows EXCEPT ![j.row] =
                updateStatusEntity(j.snap, RetryStatus(j.attemptsMade), j.msg, now)]
  /\ jobs' = Replace(jobs, j, [j EXCEPT !.pc = "throw", !.snap = EmptyRow])
  /\ UNCHANGED <<now, user, edits, plan, sched, lastSweep, manuals, delivered, attempts, conflicts, skipped, replan, http, bus, replans>>

\* catch: throw error; the queue counts the attempt
WorkerThrow(j) ==
  /\ j.state = "active" /\ j.pc = "throw"
  /\ jobs' = Replace(jobs, j, MoveToFailed(j))
  /\ UNCHANGED <<now, user, edits, rows, plan, sched, lastSweep, manuals, delivered, attempts, conflicts, skipped, replan, http, bus, replans>>

\* processJob up to its return
WorkerDeliver(R) ==
  \E j \in jobs :
    \/ WorkerTake(j) \/ WorkerFind(j) \/ WorkerProcessingRead(j) \/ WorkerProcessingWrite(j)
    \/ WorkerLoadUser(j) \/ (\E r \in R : WorkerSend(j, r))
    \/ WorkerSentRead(j) \/ WorkerSentWrite(j)

\* the catch block on the errors that reach it.  No error reaches it with
\* shouldRetry === false (circuitBreakerFire), so WorkerPermanentRead and
\* WorkerPermanentWrite are never enabled and stay out of the disjunction.
WorkerCatch ==
  \E j \in jobs :
    WorkerCatchFind(j) \/ WorkerRetryRead(j) \/ WorkerRetryWrite(j) \/ WorkerThrow(j)

\* ----------------------------------------------------------- specifications
\* One recipient in UTC registered on the birthday, an hour before 09:00; the
\* profile gets PUTs with a birth date, the endpoint answers 2xx.
Init == InitAt({56})

Next ==
  \/ Tick({56, 57, 58})
  \/ CreateUser(2, 0)
  \/ (\E bd \in BDays : UpdateBirthDate(bd))
  \/ PlanSchedule \/ PlanBirthdate
  \/ CronSweep
  \/ WorkerDeliver({"2xx"})

Spec == Init /\ [][Next]_vars

\* One recipient born on day 2 in a zone of TZs, registered the evening before
\* or in the afternoon of the server's day 2, never edited.  The clock is
\* observed at the hours ZoneHours; the cron task may miss any of them.
TZs == {0 - 10, 0, 10}
ZoneHours == {46, 47, 48, 62, 72}

InitZones == InitAt({46, 62})

NextZones ==
  \/ Tick(ZoneHours)
  \/ (\E tz \in TZs : CreateUser(2, tz))
  \/ PlanSchedule
  \/ CronSweep
  \/ WorkerDeliver({"2xx"})

SpecZones == InitZones /\ [][NextZones]_vars

\* One recipient in UTC registered at 09:00 of the birthday; the endpoint
\* answers anything, the circuit may be open.
InitRetry == InitAt({57})

NextRetry ==
  \/ CreateUser(2, 0)
  \/ PlanSchedule
  \/ CronSweep
  \/ WorkerDeliver(Responses)
  \/ WorkerCatch

SpecRetry == InitRetry /\ [][NextRetry]_vars

\* One recipient in UTC registered on the birthday around 09:00; the cron
\* task and the manual trigger run queueDueMessages side by side.
InitManual == InitAt({56})

NextManual ==
  \/ Tick({56, 57})
  \/ CreateUser(2, 0)
  \/ PlanSchedule
  \/ CronSweep \/ ManualSweep
  \/ WorkerDeliver({"2xx"})

SpecManual == InitManual /\ [][NextManual]_vars

\* One recipient in UTC registered at 09:00 of the birthday whose timezone is
\* then edited; the cron task and the manual trigger run side by side with
\* the planner's re-queue.
NewZones == {0, 1}

InitQueue == InitAt({57})

NextQueue ==
  \/ CreateUser(2, 0)
  \/ (\E tz \in NewZones : UpdateTimezone(tz))
  \/ PlanSchedule \/ PlanTimezone
  \/ CronSweep \/ ManualSweep
  \/ WorkerDeliver({"2xx"})

SpecQueue == InitQueue /\ [][NextQueue]_vars

\* ------------------------------------------------------------------ EventBus
\* what a handler does when called: returns, throws, or returns a promise
\* that resolves or rejects
Behaviours == {"returns", "throws", "resolves", "rejects"}
\* event.traceId; UserService emits its events without one
TraceIds == {"trace-789", "undefined"}

\* a handler put on the emitter as it is: its throw leaves the listener
CallListenerBare(behaviour, traceId) ==
  [log |-> <<>>, pending |-> behaviour \in {"resolves", "rejects"},
   thrown |-> behaviour = "throws"]

\* the listener on() registers, up to its await: async (event) => { try {
\* await handler(event) } catch (error) { logger.error({..., traceId:
\* event.traceId}, 'Event handler failed') } }
CallListener(behaviour, traceId) ==
  [log |-> IF behaviour = "throws" THEN <<traceId>> ELSE <<>>,
   pending |-> behaviour \in {"resolves", "rejects"},
   thrown |-> FALSE]

\* the EventName values handlers are registered on and events carry
EventNames == {"user:created", "user:updated"}
\* the handler functions a test registers
HandlerFns == {1, 2}

\* an emitter that calls every listener whatever the event name
ListensToAny(b, i, name) == TRUE
\* the i-th listener was put on the emitter under that event name
ListensTo(b, i, name) == b.topics[i] = name

\* emitter.emit(name, event): the listeners of that name are called in
\* registration order from the i-th on with the event, a throw out of a
\* listener ends the calls
RECURSIVE EmitFrom(_, _, _)
EmitFrom(b, i, traceId) ==
  IF i > Len(b.handlers) THEN b
  ELSE IF ~ListensTo(b, i, b.name) THEN EmitFrom(b, i + 1, traceId)
  ELSE LET r == CallListener(b.handlers[i], traceId)
           c == [b EXCEPT !.invoked = @ \cup {i},
                          !.awaiting = IF r.pending THEN @ \cup {i} ELSE @,
                          !.log = @ \o [k \in 1..Len(r.log) |->
                                          [handler |-> i, traceId |-> r.log[k]]],
                          !.threw = r.thrown,
                          !.calls = Append(@, [fn |-> b.fns[i],
                                               event |-> [name |-> b.name, traceId |-> traceId]])]
       IN IF r.thrown THEN c ELSE EmitFrom(c, i + 1, traceId)

\* eventBus.on(eventName, handler): a listener for the handler function fn,
\* which behaves as said, is put on the emitter under eventName
BusOnEvent(eventName, fn, behaviour) ==
  /\ bus.pc = "idle"
  /\ Len(bus.handlers) < MaxHandlers
  /\ bus' = [bus EXCEPT !.handlers = Append(@, behaviour),
                        !.topics = Append(@, eventName),
                        !.fns = Append(@, fn)]
  /\ UNCHANGED <<now, user, edits, rows, jobs, plan, sched, lastSweep, manuals, delivered, attempts, conflicts, skipped, replan, http, replans>>

\* eventBus.on(USER_CREATED, handler)
BusOn(behaviour) == BusOnEvent("user:created", 1, behaviour)

\* eventBus.emit(event) of an event with that name and trace id
BusEmitEvent(name, traceId) ==
  /\ bus.pc = "idle"
  /\ bus' = [EmitFrom([bus EXCEPT !.traceId = traceId, !.name = name], 1, traceId)
               EXCEPT !.pc = "emitted"]
  /\ UNCHANGED <<now, user, edits, rows, jobs, plan, sched, lastSweep, manuals, delivered, attempts, conflicts, skipped, replan, http, replans>>

\* eventBus.emit(event) of a USER_CREATED event
BusEmit(traceId) == BusEmitEvent("user:created", traceId)

\* the promise of the i-th handler settles: the listener resumes after its
\* await, a rejection lands in its catch
BusSettle(i) ==
  /\ i \in bus.awaiting
  /\ bus' = [bus EXCEPT !.awaiting = @ \ {i},
                        !.log = IF bus.handlers[i] = "rejects"
                                THEN Append(@, [handler |-> i, traceId |-> bus.traceId])
                                ELSE @]
  /\ UNCHANGED <<now, user, edits, rows, jobs, plan, sched, lastSweep, manuals, delivered, attempts, conflicts, skipped, replan, http, replans>>

\* Handlers are registered on one topic, one event is emitted, the promises
\* of its handlers settle in any order.
InitBus == InitAt({56})

NextBus ==
  \/ (\E b \in Behaviours : BusOn(b))
  \/ (\E t \in TraceIds : BusEmit(t))
  \/ (\E i \in 1..MaxHandlers : BusSettle(i))

SpecBus == InitBus /\ [][NextBus]_vars

\* Two handler functions are registered, each any number of times, on two
\* event names; one event of either name is emitted.
RouteBehaviours == {"returns", "throws", "resolves"}

InitRoute == InitAt({56})

NextRoute ==
  \/ (\E e \in EventNames, f \in HandlerFns, b \in RouteBehaviours : BusOnEvent(e, f, b))
  \/ (\E e \in EventNames, t \in TraceIds : BusEmitEvent(e, t))
  \/ (\E i \in 1..MaxHandlers : BusSettle(i))

SpecRoute == InitRoute /\ [][NextRoute]_vars

\* The requests UserService is given
CreateReqs == [schemaOk : BOOLEAN, tzOk : BOOLEAN, bdFuture : BOOLEAN,
               field : {"none"}, val : {0}]
UpdateReqs == [schemaOk : BOOLEAN, tzOk : BOOLEAN, bdFuture : BOOLEAN,
               field : {"birthDate"}, val : BDays]
              \cup [schemaOk : BOOLEAN, tzOk : BOOLEAN, bdFuture : BOOLEAN,
                    field : {"timezone"}, val : NewZones]

\* POST, PUT and DELETE requests for the one recipient, accepted or not, a
\* DELETE between the steps of a PUT included; the subscriber plans.
InitCrud == InitAt({32, 57})

NextCrud ==
  \/ (\E bd \in BDays : CreateUser(bd, 0))
  \/ (\E req \in CreateReqs : CreateUserRejected(req))
  \/ (\E req \in UpdateReqs : UpdateUserFind(req))
  \/ UpdateUserSave
  \/ DeleteUser
  \/ PlanSchedule \/ PlanBirthdate \/ PlanTimezone

SpecCrud == InitCrud /\ [][NextCrud]_vars

\* One recipient born on a day of BDays in a zone of TZs, registered the
\* morning of day 1 or of day 2; the profile gets PUTs with a birth date and
\* schedule is called again.  Sweeper and worker are at rest.
InitPlan == InitAt({32, 56})

NextPlan ==
  \/ (\E bd \in BDays : \E tz \in TZs : CreateUser(bd, tz))
  \/ (\E bd \in BDays : UpdateBirthDate(bd))
  \/ PlanSchedule \/ PlanBirthdate
  \/ ReplanSchedule

SpecPlan == InitPlan /\ [][NextPlan]_vars

\* One recipient in UTC registered on the birthday at 09:00, whose zone may
\* be edited and who may be deleted; the endpoint answers 2xx or 5xx.  Every
\* handler that has started goes on, the queue hands waiting jobs to the
\* worker, the cron task fires, the endpoint answers.
LiveResponses == {"2xx", "5xx"}

InitLive == InitAt({57})

NextLive ==
  \/ CreateUser(2, 0)
  \/ (\E tz \in NewZones : UpdateTimezone(tz))
  \/ DeleteUser
  \/ PlanSchedule \/ PlanTimezone
  \/ CronSweep
  \/ WorkerDeliver(LiveResponses)
  \/ WorkerCatch

SpecLive ==
  /\ InitLive /\ [][NextLive]_vars
  /\ WF_vars(PlanSchedule \/ PlanTimezone)
  /\ WF_vars(CronSweep)
  /\ WF_vars(WorkerDeliver(LiveResponses) \/ WorkerCatch)

\* One recipient in UTC registered on the birthday at 09:00; the users row
\* may be deleted in the database while a job is in the queue.
InitOrphan == InitAt({57})

NextOrphan ==
  \/ CreateUser(2, 0)
  \/ PurgeUser
  \/ PlanSchedule
  \/ CronSweep
  \/ WorkerDeliver({"2xx"})
  \/ WorkerCatch

SpecOrphan == InitOrphan /\ [][NextOrphan]_vars

\* The same recipient, not deleted, whose zone may be edited to UTC+1, over
\* two hours: the cron task fires again at 10:00.  Same fairness, and the
\* clock advances.
InitStuck == InitAt({57})

NextStuck ==
  \/ Tick({57, 58})
  \/ CreateUser(2, 0)
  \/ UpdateTimezone(1)
  \/ PlanSchedule \/ PlanTimezone
  \/ CronSweep
  \/ WorkerDeliver(LiveResponses)
  \/ WorkerCatch

SpecStuck ==
  /\ InitStuck /\ [][NextStuck]_vars
  /\ WF_vars(Tick({57, 58}))
  /\ WF_vars(PlanSchedule \/ PlanTimezone)
  /\ WF_vars(CronSweep)
  /\ WF_vars(WorkerDeliver(LiveResponses) \/ WorkerCatch)

\* One recipient in UTC, born on a day of BDays, registered at 09:00 of day
\* 2; a PUT moves the zone an hour east or west, so that the new 09:00 is
\* past or still ahead.
RequeueZones == {0 - 1, 1}

InitRequeue == InitAt({57})

NextRequeue ==
  \/ (\E bd \in BDays : CreateUser(bd, 0))
  \/ (\E tz \in RequeueZones : UpdateTimezone(tz))
  \/ PlanSchedule \/ PlanTimezone
  \/ CronSweep
  \/ WorkerDeliver({"2xx"})

SpecRequeue == InitRequeue /\ [][NextRequeue]_vars

\* A worker process started at 09:20 of the birthday of a recipient in UTC
\* registered the day before: the database holds no record or a PENDING
\* record planned for 09:00, and the queue is empty.
ColdHours == {57}

StoredRows ==
  LET r == NewRow(generateIdempotencyKey(UserId, "birthday", 2), 2, ExecutionTimeUtc(2, 0))
  IN {<<>>, <<updateStatusEntity(r, "pending", "undefined", 33)>>}

\* HourlySchedulerService.start in a process started after minute 0 of hour
\* h: cron.schedule registers the task and nothing runs; the tick of hour h
\* is past, the first run is at minute 0 of the next hour
StartScheduler(h) ==
  [sched |-> [s \in {"cron", "manual"} |-> SchedIdle], lastSweep |-> h]

InitCold ==
  /\ now \in ColdHours
  /\ user = [exists |-> TRUE, bd |-> 2, tz |-> 0, deleted |-> FALSE, at |-> 33]
  /\ edits = 0
  /\ rows \in StoredRows
  /\ jobs = {}
  /\ plan = PlanIdle
  /\ sched = StartScheduler(now).sched
  /\ lastSweep = StartScheduler(now).lastSweep
  /\ manuals = 0
  /\ delivered = [d \in Dates |-> 0]
  /\ attempts = [d \in Dates |-> 0]
  /\ conflicts = {}
  /\ skipped = [d \in Dates |-> 0]
  /\ replan = PlanIdle
  /\ http = HttpIdle
  /\ bus = BusIdle
  /\ replans = 0

NextCold ==
  \/ Tick({58, 59})
  \/ CronSweep
  \/ WorkerDeliver(Responses)
  \/ WorkerCatch

SpecCold == InitCold /\ [][NextCold]_vars

\* A recipient in UTC registered at 08:00 of the birthday while the database
\* holds the PENDING record, planned for 08:00, of a recipient in UTC+1 who
\* was soft-deleted; Redis may be unavailable for any call of the sweep.
OtherRow ==
  updateStatusEntity(NewRow(generateIdempotencyKey(UserId + 1, "birthday", 2), 2,
                            ExecutionTimeUtc(2, 1)),
                     "pending", "undefined", 33)

InitSweep ==
  /\ now = 56
  /\ user = NoUser
  /\ edits = 0
  /\ rows = <<OtherRow>>
  /\ jobs = {}
  /\ plan = PlanIdle
  /\ sched = [s \in {"cron", "manual"} |-> SchedIdle]
  /\ lastSweep = NoTime
  /\ manuals = 0
  /\ delivered = [d \in Dates |-> 0]
  /\ attempts = [d \in Dates |-> 0]
  /\ conflicts = {}
  /\ skipped = [d \in Dates |-> 0]
  /\ replan = PlanIdle
  /\ http = HttpIdle
  /\ bus = BusIdle
  /\ replans = 0

NextSweep ==
  \/ Tick({57})
  \/ CreateUser(2, 0)
  \/ PlanSchedule
  \/ CronSweep
  \/ QueueThrows("cron")

SpecSweep == InitSweep /\ [][NextSweep]_vars

\* ------------------------------------------------------------------ claims
\* C1: for one record (one idempotency key) the external endpoint returns
\* success at most once, whatever the interleaving of planner events, sweeps
\* and worker jobs.
C1_DeliveredOnce == \A d \in Dates : delivered[d] <= 1

\* C2: a record that has reached SENT keeps the status SENT in every later
\* step (sweeps, re-plans for the same key, profile edits, late jobs).
C2_SentIsFinal ==
  [][\A i \in 1..Len(rows) : rows[i].status = "sent" => rows'[i].status = "sent"]_vars

\* the 2xx answers the recipient's records have drawn, all dates together
RECURSIVE DeliveriesUpTo(_)
DeliveriesUpTo(d) == IF d = 0 THEN delivered[0] ELSE delivered[d] + DeliveriesUpTo(d - 1)

\* C3: a recipient whose profile is never edited receives at most one
\* delivery in the calendar year, over all of their records, wherever the
\* sweeper's ticks fall.
C3_OnePerYear == edits = 0 => DeliveriesUpTo(5) <= 1

\* C4: no two rows of message_logs carry the same idempotency key, also when
\* createOrGet runs concurrently for one key.
C4_UniqueKeys ==
  \A i \in 1..Len(rows) : \A k \in 1..Len(rows) : rows[i].key = rows[k].key => i = k

\* C4 witness: the planner and the sweeper were in createOrGet for one key at
\* once; one inserted the row, the other's insert was rejected.
C4_ConcurrentCreate ==
  /\ conflicts # {}
  /\ \E i \in 1..Len(rows) : rows[i].key = generateIdempotencyKey(UserId, "birthday", 2)

\* C5: createOrGet never surfaces a duplicate-key conflict to its caller, also
\* when the row is inserted by another caller between its lookup and its
\* insert.
C5_NoConflictSurfaces == conflicts = {}

\* C6: after an outage of the sweeper (at least one hourly sweep missed, at
\* most 24 hours between two sweeps), the first sweep after the restart picks
\* up every PENDING record whose scheduled_for fell inside the outage, also a
\* record whose scheduled_date is the day before.
C6_OutageRecovery ==
  [][(/\ sched["cron"].pc = "q_find" /\ sched'["cron"].pc = "q_item"
      /\ sched["cron"].prev # NoTime
      /\ now - sched["cron"].prev > 1
      /\ now - sched["cron"].prev <= 24)
     => \A i \in 1..Len(rows) :
          (/\ rows[i].status = "pending"
           /\ sched["cron"].prev < rows[i].sf
           /\ rows[i].sf <= now)
          => \E n \in 1..Len(sched'["cron"].list) : sched'["cron"].list[n].id = i]_vars

\* C7: whatever the recipient's zone, when the sweep of the hour scheduled_for
\* has returned, the record of a recipient registered before that hour is
\* in the queue (or already worked on): it does not wait for a later sweep.
C7_PromptEnqueue ==
  LET key == generateIdempotencyKey(UserId, "birthday", user.bd)
      id  == findByIdempotencyKey(rows, key)
  IN (/\ user.exists /\ ~user.deleted /\ edits = 0
      /\ user.at < ExecutionTimeUtc(user.bd, user.tz)
      /\ lastSweep = ExecutionTimeUtc(user.bd, user.tz)
      /\ sched["cron"].pc = "idle" /\ plan.pc = "idle")
     => /\ id # NoRow
        /\ (getJob(jobs, key) # {} \/ rows[id].status \notin {"unprocessed", "pending"})

\* C8: a job invokes the endpoint at most MAX_RETRY_ATTEMPTS times; on a
\* retriable failure the worker writes RETRYING and the job is retried while
\* attemptsMade + 1 < MAX_RETRY_ATTEMPTS, and writes FAILED and the job stays
\* failed once attemptsMade + 1 >= MAX_RETRY_ATTEMPTS.
C8_RetriesBounded ==
  /\ [](\A j \in jobs : /\ j.calls <= MAX_RETRY_ATTEMPTS
                        /\ j.attemptsMade <= MAX_RETRY_ATTEMPTS
                        /\ (j.state = "failed" => j.attemptsMade = MAX_RETRY_ATTEMPTS))
  /\ [][\A j \in jobs : \A k \in jobs' :
          /\ (j.state = "active" /\ j.pc = "r_write" /\ k.id = j.id /\ k.pc = "throw")
             => rows'[j.row].status = IF j.attemptsMade + 1 < MAX_RETRY_ATTEMPTS
                                      THEN "retrying" ELSE "failed"
          /\ (j.state = "active" /\ j.pc = "throw" /\ k.id = j.id /\ k # j)
             => k.state = IF j.attemptsMade + 1 < MAX_RETRY_ATTEMPTS
                          THEN "waiting" ELSE "failed"]_vars

\* C8 witness: a job whose five attempts all reached the endpoint and failed
\* is kept as failed, its record is FAILED.
C8_Exhausted ==
  \E j \in jobs : /\ j.state = "failed" /\ j.calls = MAX_RETRY_ATTEMPTS
                  /\ rows[findByIdempotencyKey(rows, j.id)].status = "failed"

\* C9: after a 4xx answer of the endpoint the job is on the permanent path
\* (FAILED, normal return): it is never put on the retriable path that
\* writes RETRYING and rethrows.
C9_ClientErrorIsFinal ==
  \A j \in jobs : j.resp = "4xx" => j.pc \notin {"r_read", "r_write", "throw"}

\* C10: a record that is SENT has attempt_count equal to the number of
\* delivery attempts the worker made for it.
C10_AttemptCount ==
  \A i \in 1..Len(rows) : rows[i].status = "sent" => rows[i].cnt = attempts[rows[i].date]

\* C11: a job that finds its record SENT is a no-op: the endpoint is not
\* called, no field of any record changes, and the job completes (as
\* skipped) and leaves the queue.
C11_SentJobNoOp ==
  [][\A j \in jobs :
      (/\ j.state = "active" /\ j.pc = "find" /\ j \notin jobs'
       /\ findByIdempotencyKey(rows, j.id) # NoRow
       /\ rows[findByIdempotencyKey(rows, j.id)].status = "sent")
      => /\ rows' = rows
         /\ delivered' = delivered /\ attempts' = attempts
         /\ \A k \in jobs' : k.id # j.id
         /\ skipped'[j.id[3]] = skipped[j.id[3]] + 1]_vars

\* C11 witness: a duplicate job of a delivered record was acknowledged
C11_DuplicateSkipped == \E d \in Dates : skipped[d] > 0 /\ delivered[d] > 0

\* C12: late registration: once plan has run for a recipient registered on
\* the birthday (in their zone) after 09:00 local, the record exists and,
\* while it is PENDING, carries the 'created after scheduled send time'
\* marker as its error_message.
C12_LateMarker ==
  LET id == findByIdempotencyKey(rows, generateIdempotencyKey(UserId, "birthday", user.bd))
  IN (/\ user.exists /\ edits = 0
      /\ LocalDate(user.at, user.tz) = user.bd
      /\ ExecutionTimeUtc(user.bd, user.tz) < user.at
      /\ plan.pc = "idle")
     => /\ id # NoRow
        /\ (rows[id].status = "pending" => rows[id].err = "late")

\* C13: the manual trigger (checkDueTime false) takes every record that is
\* PENDING for the server's today, never skips one as not due, and adds a
\* job for each one that has no job with its key, due or not.
C13_ManualEnqueuesAll ==
  /\ [](sched["manual"].skippedNotDue = 0)
  /\ [][LET m  == sched["manual"]
            m2 == sched'["manual"]
        IN /\ (m.pc = "q_find" /\ m2.pc = "q_item")
              => {m2.list[n].id : n \in 1..Len(m2.list)}
                   = {i \in 1..Len(rows) : rows[i].status = "pending"
                                           /\ rows[i].date = ServerDate(now)}
           /\ (m.pc = "q_item" /\ m2 # m /\ m.list # <<>>
                /\ getJob(jobs, Head(m.list).key) = {})
              => m2.pc = "q_add" /\ m2.list = m.list
           /\ (m.pc = "q_add" /\ m2 # m)
              => getJob(jobs', Head(m.list).key) # {}]_vars

\* C13 witness: after a manual trigger the queue holds a job of a record
\* whose scheduled_for has not arrived
C13_EarlyJob ==
  /\ manuals > 0
  /\ \E j \in jobs : /\ findByIdempotencyKey(rows, j.id) # NoRow
                      /\ rows[findByIdempotencyKey(rows, j.id)].sf > now

\* C14: the queue never holds two jobs with one idempotency key, however
\* the cron task, the manual trigger and the timezone-change re-queue
\* interleave.
C14_OneJobPerKey == \A j \in jobs : \A k \in jobs : j.id = k.id => j = k

\* C14 witness: the cron task and the manual trigger have both counted an
\* add for the one record there is, and the queue holds one job
C14_BothAdded ==
  /\ sched["cron"].queued = 1 /\ sched["manual"].queued = 1
  /\ Len(rows) = 1 /\ Cardinality(jobs) = 1

\* C15: after any PUT edits of the birth date, a recipient whose current
\* birthday is today or later (in their zone) and has not been delivered has
\* a record for that date in a non-terminal status.
C15_EditsKeepRecord ==
  LET id == findByIdempotencyKey(rows, generateIdempotencyKey(UserId, "birthday", user.bd))
  IN (/\ user.exists /\ ~user.deleted
      /\ plan.pc = "idle" /\ replan.pc = "idle"
      /\ user.bd >= LocalDate(now, user.tz)
      /\ delivered[user.bd] = 0)
     => /\ id # NoRow
        /\ rows[id].status \in {"unprocessed", "pending", "processing", "retrying"}

\* C16: on a birth date change the planner never moves a record that is
\* PROCESSING or SENT to FAILED, however its read and its later write
\* interleave with the worker's transitions.
C16_PlannerSparesInFlight ==
  [][\A i \in 1..Len(rows) :
       (rows[i].status \in {"processing", "sent"} /\ rows'[i].status = "failed")
       => ~(plan.pc = "b_write" /\ plan'.pc = "s_lookup")]_vars

\* C17: a record the planner cancelled (FAILED, 'Cancelled due to birthdate
\* change') is never afterwards moved to PROCESSING by a worker nor delivered.
C17_CancelledStaysCancelled ==
  [][\A i \in 1..Len(rows) :
       (rows[i].status = "failed" /\ rows[i].err = "cancelled")
       => /\ rows'[i].status # "processing"
          /\ delivered'[rows[i].date] = delivered[rows[i].date]]_vars

\* C18: for a recipient whose birthday is strictly after today in their zone
\* (and whose profile was not edited), schedule leaves exactly one record for
\* the birthday: UNPROCESSED, attempt_count 0, scheduled_for 09:00 local time
\* of the birthday in UTC; further calls of schedule, one after another or
\* concurrent, leave that one record with the same fields.
C18_FuturePlanIdempotent ==
  (user.exists /\ edits = 0 /\ user.bd > LocalDate(now, user.tz))
  => /\ Len(rows) <= 1
     /\ (plan.pc = "idle" => Len(rows) = 1)
     /\ \A i \in 1..Len(rows) :
          /\ rows[i].key = generateIdempotencyKey(UserId, "birthday", user.bd)
          /\ rows[i].date = user.bd
          /\ rows[i].status = "unprocessed"
          /\ rows[i].cnt = 0
          /\ rows[i].err = "none"
          /\ rows[i].sf + user.tz = user.bd * 24 + BIRTHDAY_MESSAGE_HOUR

C18_ReplannedConcurrently ==
  /\ user.exists /\ edits = 0 /\ user.bd > LocalDate(now, user.tz)
  /\ user.tz # 0
  /\ replans = MaxReplans
  /\ plan.pc = "idle" /\ replan.pc = "idle"
  /\ conflicts # {}
  /\ Len(rows) = 1

\* C19: when a subscriber of a topic throws, synchronously or from an async
\* handler, every subscriber of the topic is still invoked for the event, the
\* failure is logged exactly once with the event's trace id, and emit does
\* not fail.
C19_FailureIsolated ==
  bus.pc = "emitted"
  => /\ ~bus.threw
     /\ bus.invoked = 1..Len(bus.handlers)
     /\ \A k \in 1..Len(bus.log) : bus.log[k].traceId = bus.traceId
     /\ \A i \in 1..Len(bus.handlers) :
          Cardinality({k \in 1..Len(bus.log) : bus.log[k].handler = i})
            = IF \/ bus.handlers[i] = "throws"
                 \/ (bus.handlers[i] = "rejects" /\ i \notin bus.awaiting)
              THEN 1 ELSE 0

C19_TwoFailuresLogged ==
  /\ bus.pc = "emitted" /\ bus.awaiting = {}
  /\ Len(bus.handlers) = MaxHandlers
  /\ bus.handlers[1] = "throws"
  /\ \E i \in 2..MaxHandlers : bus.handlers[i] = "rejects"
  /\ \E i \in 2..MaxHandlers : bus.handlers[i] \in {"returns", "resolves"}
  /\ Len(bus.log) = 2

\* C20: createUser and updateUser emit exactly one event, after the
\* repository write succeeded; a request that is rejected (duplicate e-mail,
\* invalid timezone, future birth date, user not found, failed update) writes
\* nothing to the store and emits no event.
C20_EventAfterWrite ==
  /\ [](http.events = http.writes)
  /\ [][/\ (http' # http /\ http'.reject # "none")
           => /\ user' = user /\ plan' = plan
              /\ http'.writes = http.writes /\ http'.events = http.events
        /\ (http'.writes # http.writes \/ http'.events # http.events)
           => /\ http'.writes = http.writes + 1
              /\ http'.events = http.events + 1
              /\ http'.reject = "none"
              /\ user'.exists /\ ~user'.deleted
              /\ plan.pc = "idle"
              /\ plan'.pc \in {"s_lookup", "b_remove", "t_remove"}
              /\ plan'.bd = user'.bd /\ plan'.tz = user'.tz
        /\ (plan.pc = "idle" /\ plan'.pc # "idle")
           => http'.events = http.events + 1
        /\ (user' # user /\ user'.deleted = user.deleted)
           => http'.writes = http.writes + 1]_vars

C20_FailedUpdate ==
  /\ http.op = "update" /\ http.reject = "failed update"
  /\ http.writes = 1 /\ http.events = 1
  /\ user.exists /\ user.deleted

\* C21: the sweeper selects a recipient only when the birth day equals today
\* in the recipient's own zone, and every record the sweeper creates has the
\* recipient's birth day as its scheduled_date, also when the server's date
\* differs from the recipient's local date.
C21_SweeperUsesLocalDate ==
  [][/\ (sched["cron"].pc = "users" /\ sched'["cron"].pc = "u_lookup")
        => user.bd = LocalDate(now, user.tz)
     /\ (sched["cron"].pc = "c_create" /\ Len(rows') = Len(rows) + 1)
        => rows'[Len(rows')].date = user.bd]_vars

\* C22: every change of a record's status, by any component, follows an edge
\* of the state machine (a record is created UNPROCESSED or PENDING;
\* UNPROCESSED->PENDING, PENDING->PROCESSING, PROCESSING->SENT,
\* PROCESSING->RETRYING, PROCESSING->FAILED, RETRYING->PROCESSING, and
\* UNPROCESSED or PENDING ->FAILED); any other requested transition leaves
\* the record unchanged.
C22_TransitionsFollowEdges ==
  [][LET edges == {<<"unprocessed", "pending">>, <<"pending", "processing">>,
                   <<"processing", "sent">>, <<"processing", "retrying">>,
                   <<"processing", "failed">>, <<"retrying", "processing">>,
                   <<"unprocessed", "failed">>, <<"pending", "failed">>}
     IN /\ \A i \in 1..Len(rows) :
             rows'[i].status # rows[i].status
             => <<rows[i].status, rows'[i].status>> \in edges
        /\ \A i \in (Len(rows) + 1)..Len(rows') :
             rows'[i].status \in {"unprocessed", "pending"}]_vars

\* C23: FAILED is terminal: once a record is FAILED its status never changes
\* again, neither by a later call of schedule for the same key, by the
\* sweeper, nor by a worker job still queued or retried for that key.
C23_FailedIsFinal ==
  [][\A i \in 1..Len(rows) :
       rows[i].status = "failed" => rows'[i].status = "failed"]_vars

\* C24: attempt_count of a record never decreases from one committed state to
\* the next, under any interleaving of the updateStatus calls (a read of the
\* row, then a write of attempt_count + 1) of planner, sweeper and worker.
C24_AttemptCountMonotone ==
  [][\A i \in 1..Len(rows) : rows'[i].cnt >= rows[i].cnt]_vars

\* C25: no record stays PROCESSING or RETRYING forever: with the queue, the
\* worker and the handlers scheduled fairly and an endpoint that answers,
\* every record that is PROCESSING or RETRYING eventually is SENT or FAILED,
\* also when the recipient is soft-deleted or an edit removes the record's job.
C25_NoStuckRecord ==
  \A i \in 1..2 :
    (i <= Len(rows) /\ rows[i].status \in {"processing", "retrying"})
    ~> (i <= Len(rows) /\ rows[i].status \in {"sent", "failed"})

\* C26: when the worker cannot load the recipient (not found or soft-deleted)
\* the run of the job ends with the record FAILED, error "recipient
\* unavailable", the job acknowledged and not retried.
C26_RecipientUnavailable ==
  [][\A j \in jobs :
       (/\ j.state = "active" /\ j.msg = "nouser"
        /\ \A k \in jobs' : k.id = j.id => k.state # "active")
       => /\ \A k \in jobs' : k.id # j.id
          /\ LET id == findByIdempotencyKey(rows', j.id)
             IN id # NoRow => /\ rows'[id].status = "failed"
                              /\ rows'[id].err = "recipient unavailable"]_vars

\* C27: when the worker finds no record for the job's id the job fails
\* fatally: the endpoint is not called and the queue does not retry the job.
C27_MissingRecordIsFatal ==
  [][\A j \in jobs :
       (/\ j.state = "active" /\ j.msg = "notfound"
        /\ \A k \in jobs' : k.id = j.id => k.state # "active")
       => /\ \A k \in jobs' : k.id = j.id => k.state = "failed"
          /\ attempts' = attempts /\ delivered' = delivered]_vars

\* C28: records survive the recipient's soft delete, and the worker never
\* calls the endpoint for a recipient whose deleted_at was set before the
\* worker loaded the recipient for that job.
C28_DeletedNotMessaged ==
  [][/\ (user'.deleted /\ ~user.deleted) => rows' = rows
     /\ \A k \in jobs' :
          (k.pc = "send" /\ k \notin jobs)
          => \E j \in jobs : /\ j.id = k.id /\ j.pc = "user"
                              /\ user.exists /\ ~user.deleted
     /\ attempts' # attempts
        => \E j \in jobs : j.state = "active" /\ j.pc = "send"]_vars

C28_DeletedSkipped ==
  /\ user.deleted
  /\ Len(rows) = 1
  /\ attempts[2] = 0
  /\ \E j \in jobs : j.state = "active" /\ j.msg = "nouser"

\* C29: a schedule update (the new scheduled_for after a timezone change) is
\* applied only to a record whose current status is UNPROCESSED or PENDING;
\* on a record that is PROCESSING, SENT, FAILED or RETRYING scheduled_date and
\* scheduled_for stay unchanged.
C29_ScheduleUpdateGuarded ==
  [][\A i \in 1..Len(rows) :
       (rows'[i].sf # rows[i].sf \/ rows'[i].date # rows[i].date)
       => rows[i].status \in {"unprocessed", "pending"}]_vars

\* C30: a timezone-only change on a record that is UNPROCESSED or PENDING
\* keeps its scheduled_date and idempotency_key, sets scheduled_for to 09:00
\* in the new zone on that scheduled_date, in UTC, and removes the job queued
\* under the key; a record that is PROCESSING or SENT is left unchanged.
C30_TimezoneReschedule ==
  [][/\ (plan.pc = "t_remove" /\ plan'.pc = "t_find")
        => /\ \A j \in jobs' : j.id = plan.key => j.state = "active"
           /\ rows' = rows
     /\ (plan.pc = "t_find" /\ plan' # plan)
        => LET id == findByIdempotencyKey(rows, plan.key)
           IN /\ rows' = rows
              /\ (id # NoRow /\ rows[id].status \in {"processing", "sent"})
                 => plan'.pc = "idle"
              /\ (id # NoRow /\ rows[id].status \in {"unprocessed", "pending"})
                 => plan'.pc = "t_read" /\ plan'.row = id
     /\ (plan.pc = "t_write" /\ plan' # plan /\ plan.seen \in {"unprocessed", "pending"})
        => /\ Len(rows') = Len(rows)
           /\ rows'[plan.row].date = rows[plan.row].date
           /\ rows'[plan.row].key = rows[plan.row].key
           /\ rows'[plan.row].key = generateIdempotencyKey(UserId, "birthday", user.bd)
           /\ rows'[plan.row].sf + user.tz
                = rows[plan.row].date * 24 + BIRTHDAY_MESSAGE_HOUR
           /\ \A i \in 1..Len(rows) : i # plan.row => rows'[i] = rows[i]]_vars

C30_Rescheduled ==
  /\ edits = 1 /\ user.tz = 1
  /\ plan.pc = "t_add" /\ plan.seen = "pending"
  /\ Len(rows) = 1
  /\ rows[1].date = 2
  /\ rows[1].sf = 2 * 24 + BIRTHDAY_MESSAGE_HOUR - 1
  /\ jobs = {}
  /\ lastSweep = now /\ sched["cron"].pc = "idle"

\* C31: after a timezone-only change, when the new scheduled_for is in the
\* past and the record was PENDING the planner enqueues a job with the
\* record's idempotency key at once; when the new scheduled_for is in the
\* future, or the record is not PENDING, the planner enqueues no job.
C31_RequeueWhenDue ==
  [][/\ (plan.pc = "t_write" /\ plan' # plan)
        => /\ (plan.seen = "pending" /\ plan.sf < now) => plan'.pc = "t_add"
           /\ (plan.seen # "pending" \/ plan.sf > now)
              => plan'.pc = "idle" /\ jobs' = jobs
     /\ (plan.pc = "t_add" /\ plan' # plan)
        => /\ plan'.pc = "idle"
           /\ \E j \in jobs' : j.id = plan.key
           /\ \A j \in jobs' \ jobs :
                j.id = plan.key /\ j.state = "waiting" /\ j.attemptsMade = 0
     /\ (plan.pc \in {"t_remove", "t_find", "t_read", "t_write"} /\ plan' # plan)
        => jobs' \subseteq jobs]_vars

C31_Requeued ==
  /\ edits = 1 /\ user.tz = 1 /\ user.bd = 2
  /\ plan.pc = "idle"
  /\ Len(rows) = 1 /\ rows[1].status = "pending" /\ rows[1].sf = 56
  /\ lastSweep = NoTime
  /\ \E j \in jobs : j.id = rows[1].key /\ j.state = "waiting"

\* C32: a recipient update in which neither birth date nor timezone changed
\* (the new values equal the old ones, whatever the request carried) causes
\* no planner action: its handler creates or modifies no record and removes
\* or adds no job.
C32_UnchangedUpdateNoAction ==
  [][(/\ plan' # plan /\ plan.pc # "idle"
      /\ plan.oldBd # 0
      /\ plan.oldBd = plan.bd /\ plan.oldTz = plan.tz)
     => rows' = rows /\ jobs' = jobs]_vars

\* C33: sweeper promotion for a recipient whose birthday is today: with no
\* record for the key it creates one and moves it to PENDING; a record that
\* is UNPROCESSED it moves to PENDING; a record in any other status it leaves
\* unchanged; a recipient whose birthday is not today causes no create.
C33_PromotionFrame ==
  [][/\ (sched["cron"].pc = "c_create" /\ sched' # sched /\ rows' # rows)
        => /\ user.bd = LocalDate(now, user.tz)
           /\ Len(rows') = Len(rows) + 1
           /\ sched'["cron"].pc = "u_read"
     /\ (sched["cron"].pc = "u_write" /\ sched' # sched)
        => LET i == sched["cron"].row
           IN IF rows[i].status = "unprocessed"
              THEN /\ rows'[i].status = "pending"
                   /\ \A k \in 1..Len(rows) : k # i => rows'[k] = rows[k]
              ELSE rows' = rows
     /\ (sched["cron"].pc \in {"users", "u_lookup", "c_lookup", "u_read"}
         /\ sched' # sched)
        => rows' = rows]_vars

\* C34: in a normal sweep (checkDueTime = true) a PENDING record whose
\* scheduled_for is later than now is counted in skippedNotDue, no job is
\* added for it and the record is not modified; a record whose scheduled_for
\* is at or before now and has no job is enqueued as a waiting job (delay 0)
\* whose id is the record's idempotency key.
C34_NormalSweepFrame ==
  [][LET c == sched["cron"]
         d == sched'["cron"]
     IN /\ (c.pc = "q_item" /\ d # c /\ c.list # <<>> /\ Head(c.list).sf > c.qnow)
           => /\ d.skippedNotDue = c.skippedNotDue + 1
              /\ d.queued = c.queued
              /\ d.pc = "q_item"
              /\ jobs' = jobs
              /\ rows' = rows
        /\ (c.pc = "q_item" /\ d # c /\ c.list # <<>> /\ Head(c.list).sf <= c.qnow
            /\ getJob(jobs, Head(c.list).key) = {})
           => /\ d.pc = "q_add"
              /\ d.skippedNotDue = c.skippedNotDue
        /\ (c.pc = "q_add" /\ d # c /\ getJob(jobs, Head(c.list).key) = {})
           => /\ \E j \in jobs' \ jobs : j.id = Head(c.list).key /\ j.state = "waiting"
              /\ d.queued = c.queued + 1
              /\ rows' = rows]_vars

\* the hourly sweep has skipped a PENDING record that is not due yet
C34_SkippedNotDue ==
  /\ sched["cron"].pc = "q_item"
  /\ ~sched["cron"].force
  /\ sched["cron"].skippedNotDue = 1
  /\ jobs = {}

\* C35: on cold start the sweeper runs one sweep immediately, before the
\* first cron tick at minute 0: once the hour of the start is over, a PENDING
\* record whose scheduled_for was past at start-up has its job in the queue.
C35_QueuedInStartHour ==
  \A h \in ColdHours :
    now > h =>
      \A i \in 1..Len(rows) :
        (rows[i].status = "pending" /\ rows[i].sf <= h) => getJob(jobs, rows[i].key) # {}

\* C36: in every reachable state a record with status SENT has a sent_at and
\* no error_message, and a record with status FAILED or RETRYING has an
\* error_message.
C36_StatusFields ==
  \A i \in 1..Len(rows) :
    /\ rows[i].status = "sent" => (rows[i].sentAt # NoTime /\ rows[i].err = "none")
    /\ rows[i].status \in {"failed", "retrying"} => rows[i].err # "none"

\* C37: for every call of queueDueMessages the summary satisfies total =
\* queued + skippedNotDue + skippedAlreadyQueued + |failed|: each PENDING
\* record found is counted in exactly one of the four, so inside the loop the
\* four counters and the messages still to be looked at add up to total, and
\* at the return (no message left) the four counters alone do.
C37_SummaryAddsUp ==
  \A s \in {"cron", "manual"} :
    sched[s].pc \in {"q_item", "q_add"}
      => sched[s].total = sched[s].queued + sched[s].skippedNotDue
                          + sched[s].skippedAlreadyQueued + Len(sched[s].failed)
                          + Len(sched[s].list)

\* a sweep about to return a summary of two records, one skipped because its
\* job was in the queue and one whose enqueue threw
C37_MixedSummary ==
  /\ sched["cron"].pc = "q_item"
  /\ sched["cron"].list = <<>>
  /\ sched["cron"].total = 2
  /\ sched["cron"].skippedAlreadyQueued = 1
  /\ Len(sched["cron"].failed) = 1

C39_Routing ==
  bus.pc = "emitted"
  => /\ bus.invoked = {i \in 1..Len(bus.topics) : bus.topics[i] = bus.name}
     /\ \A f \in HandlerFns :
          Cardinality({k \in 1..Len(bus.calls) : bus.calls[k].fn = f})
            = Cardinality({i \in 1..Len(bus.fns) : bus.fns[i] = f /\ bus.topics[i] = bus.name})
     /\ \A k \in 1..Len(bus.calls) :
          bus.calls[k].event = [name |-> bus.name, traceId |-> bus.traceId]

\* an emit after one handler was registered twice under the event's name and
\* once under the other name: it was called twice
C39_TwiceRegistered ==
  /\ bus.pc = "emitted"
  /\ Len(bus.fns) = 3
  /\ \A i \in 1..3 : bus.fns[i] = 1
  /\ Cardinality({i \in 1..3 : bus.topics[i] = bus.name}) = 2
  /\ Len(bus.calls) = 2

\* C40: when schedule runs for a recipient whose birthday this year is before
\* today in their timezone, it creates no record, modifies no existing record
\* and returns {success: true}: the call ends at its date check, nothing is
\* written or queued and no failure is reported.
C40_PassedBirthdayNoOp ==
  [][(plan.pc = "s_lookup" /\ plan' # plan /\ plan.bd < LocalDate(now, plan.tz))
       => /\ plan' = PlanIdle
          /\ rows' = rows
          /\ jobs' = jobs
          /\ conflicts' = conflicts]_vars

\* schedule has returned for a recipient registered the day after the
\* birthday in their zone
C40_PassedSkipped ==
  /\ user.exists
  /\ user.bd < LocalDate(now, user.tz)
  /\ user.at = now
  /\ plan = PlanIdle
  /\ rows = <<>>
  /\ sched["cron"].pc = "idle"
  /\ lastSweep = NoTime

====
